---- MODULE Spec2Model ----
(***************************************************************************)
(* A model of the retrieval core of Refactron:                             *)
(*   - RepositoryManager.get_code_chunks   (src/repository_manager.py)     *)
(*   - RetrievalModule.embed_chunks/search (src/retrieval_module.py)       *)
(* Text is a sequence of one-character strings, a Python list is a         *)
(* sequence, a Python dict is a record (a function on its keys).           *)
(***************************************************************************)
EXTENDS Integers, Sequences, FiniteSets, TLC

VARIABLES
    files,            \* the files get_all_files returns, in its order
    chunker,          \* the last get_code_chunks call: its argument and outcome
    embedding_dim,    \* RetrievalModule.embedding_dim
    index,            \* the vectors held by self.index (faiss.IndexFlatL2)
    chunk_mapping,    \* RetrievalModule.chunk_mapping
    call,             \* the last embed_chunks / search call and its outcome
    last_rebuild,     \* the chunk list of the last call that reached index.reset()
    backend,          \* the behaviour of the installed libraries (fixed per build)
    rebuilder,        \* a thread inside embed_chunks: its position and locals
    searcher,         \* a thread inside search: its position and locals
    command,          \* the last command of the command line (main.py) and its outcome
    main_thread,      \* the thread running main.query from line 137 on: position, locals
    indicator_thread, \* the thread running thinking_indicator: position, locals
    stop_event,       \* the threading.Event of main.query: set or not
    disk,             \* the two files selective_apply works on, and the platform
    selection         \* the last selective_apply call: its answers and outcome

threadVars == <<rebuilder, searcher>>
retrievalVars ==
    <<embedding_dim, index, chunk_mapping, call, last_rebuild, backend, rebuilder, searcher>>
vars ==
    <<files, chunker, embedding_dim, index, chunk_mapping, call, last_rebuild, backend,
      rebuilder, searcher, command, main_thread, indicator_thread, stop_event,
      disk, selection>>

selectorVars == <<disk, selection>>

\* no selective_apply call was made
InitSelectorIdle ==
    /\ disk = [original |-> <<>>, modified |-> <<>>, linesep |-> "\n"]
    /\ selection = [op |-> "none"]

indicatorVars == <<main_thread, indicator_thread, stop_event>>

\* no query command is waiting for the LLM
InitIndicatorIdle ==
    /\ main_thread = [pc |-> "idle"]
    /\ indicator_thread = [pc |-> "idle"]
    /\ stop_event = FALSE

----------------------------------------------------------------------------
(* Bounds of the model *)

MaxLen == 3      \* longest content of an opaque text file
MaxM == 3        \* largest max_chunk_size passed to get_code_chunks

----------------------------------------------------------------------------
(* Python built-ins used by the code *)

Min(a, b) == IF a <= b THEN a ELSE b

\* s[i:j] for 0 <= i <= j
Slice(s, i, j) == SubSeq(s, i + 1, Min(j, Len(s)))

\* list(range(start, stop, step)) for step /= 0; range() raises ValueError on step = 0
RECURSIVE Range(_, _, _)
Range(start, stop, step) ==
    IF step > 0
    THEN IF start >= stop THEN <<>> ELSE <<start>> \o Range(start + step, stop, step)
    ELSE IF start <= stop THEN <<>> ELSE <<start>> \o Range(start + step, stop, step)

\* a // b for b > 0 and a >= 0
FloorDiv(a, b) == a \div b

NL == "\n"

\* str.splitlines(): lines are ended by a newline; no empty last line after a final newline
RECURSIVE SplitFrom(_, _)
SplitFrom(s, cur) ==
    IF s = <<>> THEN (IF cur = <<>> THEN <<>> ELSE <<cur>>)
    ELSE IF Head(s) = NL THEN <<cur>> \o SplitFrom(Tail(s), <<>>)
    ELSE SplitFrom(Tail(s), Append(cur, Head(s)))

splitlines(s) == SplitFrom(s, <<>>)

\* "\n".join(lines)
RECURSIVE join(_)
join(lines) ==
    IF lines = <<>> THEN <<>>
    ELSE IF Len(lines) = 1 THEN lines[1]
    ELSE lines[1] \o <<NL>> \o join(Tail(lines))

\* os.path.splitext(file)[1].lower(); a path is <<stem, extension>>. str.lower() on
\* the strings of the model
lower(ext) == IF ext = ".PY" THEN ".py" ELSE IF ext = "Y" THEN "y" ELSE ext
splitext(path) == path

\* time.ctime(t): a formatted date, not the number
ctime(t) == <<"ctime", t>>

----------------------------------------------------------------------------
(* The files of the repository *)

Chars == {"a", NL}

RECURSIVE SeqsUpTo(_, _)
SeqsUpTo(S, n) ==
    IF n = 0 THEN {<<>>}
    ELSE LET shorter == SeqsUpTo(S, n - 1)
         IN shorter \cup {Append(s, c) : s \in {t \in shorter : Len(t) = n - 1}, c \in S}

Contents == SeqsUpTo(Chars, MaxLen)

\* What ast.parse does: it returns the nodes below the Module in document order, each
\* with its parent (0: the Module itself), or it raises SyntaxError.
SyntaxError == [raises |-> TRUE, nodes |-> <<>>]
Parsed(nodes) == [raises |-> FALSE, nodes |-> nodes]

Node(type, name, lineno, end_lineno, parent) ==
    [type |-> type, name |-> name, lineno |-> lineno, end_lineno |-> end_lineno,
     parent |-> parent]

AstAssign == Parsed(<<Node("Assign", "", 1, 1, 0)>>)
AstFunction == Parsed(<<Node("FunctionDef", "f", 1, 1, 0)>>)
AstClass == Parsed(<<Node("ClassDef", "C", 1, 2, 0), Node("FunctionDef", "m", 2, 2, 1)>>)
AstAsync == Parsed(<<Node("Assign", "", 1, 1, 0), Node("AsyncFunctionDef", "co", 2, 2, 0)>>)
AstNested == Parsed(<<Node("FunctionDef", "f", 1, 2, 0), Node("FunctionDef", "g", 2, 2, 1),
                      Node("FunctionDef", "h", 3, 3, 0)>>)
AstIf == Parsed(<<Node("If", "", 1, 2, 0), Node("FunctionDef", "p", 2, 2, 1),
                  Node("FunctionDef", "q", 3, 3, 0)>>)

\* Python sources: a content and what ast.parse makes of it
PySources ==
    {[content |-> <<"a">>, ast |-> a] : a \in {SyntaxError, AstAssign, AstFunction}}
    \cup {[content |-> <<"a", NL, "b">>, ast |-> a] : a \in {SyntaxError, AstClass, AstAsync}}
    \cup {[content |-> <<"a", NL, "b", NL, "c">>, ast |-> a] :
             a \in {SyntaxError, AstNested, AstIf}}
    \cup {[content |-> <<>>, ast |-> Parsed(<<>>)]}

\* Other files: any content, never parsed
TextSources == {[content |-> c, ast |-> SyntaxError] : c \in Contents}

\* The i-th file of the repository is named Stems[i]
Stems == <<"f1", "f2", "f3">>

\* A file: its path, what read_file returns for it, what ast.parse makes of that,
\* and os.path.getmtime
FileOf(stem, ext, src, mtime) ==
    [path |-> <<stem, ext>>, content |-> src.content, ast |-> src.ast, mtime |-> mtime]

----------------------------------------------------------------------------
(* RepositoryManager.get_code_chunks *)

\* ast.iter_child_nodes: the children of node n (0: the Module) in document order
iter_child_nodes(tree, n) ==
    SelectSeq([i \in 1..Len(tree) |-> i], LAMBDA i : tree[i].parent = n)

\* a depth-first walk: the children go to the front of the queue
RECURSIVE walkDepthFirst(_, _)
walkDepthFirst(tree, todo) ==
    IF todo = <<>> THEN <<>>
    ELSE <<Head(todo)>>
         \o walkDepthFirst(tree, iter_child_nodes(tree, Head(todo)) \o Tail(todo))

\* ast.walk: breadth-first from the front of a queue, children appended at its end
RECURSIVE walk(_, _)
walk(tree, todo) ==
    IF todo = <<>> THEN <<>>
    ELSE <<Head(todo)>> \o walk(tree, Tail(todo) \o iter_child_nodes(tree, Head(todo)))

IsDef(tree, n) ==
    n > 0 /\ tree[n].type \in {"FunctionDef", "AsyncFunctionDef", "ClassDef"}

\* lines 93-106: one chunk per function or class node, in ast.walk order
StructuralChunk(file, node) ==
    LET start == node.lineno - 1
        end == node.end_lineno
        lines == splitlines(file.content)
        snippet == join(Slice(lines, start, end))
    IN [file |-> file.path,
        type |-> IF node.type \in {"FunctionDef", "AsyncFunctionDef"}
                 THEN "function" ELSE "class",
        name |-> node.name,
        content |-> snippet,
        modified |-> ctime(file.mtime)]

\* only the definitions directly below the Module
StructuralChunksTopLevel(file) ==
    LET tree == file.ast.nodes
        defs == SelectSeq(iter_child_nodes(tree, 0), LAMBDA n : IsDef(tree, n))
    IN [j \in 1..Len(defs) |-> StructuralChunk(file, tree[defs[j]])]

StructuralChunks(file) ==
    LET tree == file.ast.nodes
        defs == SelectSeq(walk(tree, <<0>>), LAMBDA n : IsDef(tree, n))
    IN [j \in 1..Len(defs) |-> StructuralChunk(file, tree[defs[j]])]

\* a window that runs one character into the next one
WindowChunkOverlapping(file, i, max_chunk_size) ==
    [file |-> file.path,
     content |-> Slice(file.content, i, i + max_chunk_size + 1),
     chunk_index |-> FloorDiv(i, max_chunk_size),
     modified |-> ctime(file.mtime)]

\* a window numbered from one
WindowChunkOneBased(file, i, max_chunk_size) ==
    [file |-> file.path,
     content |-> Slice(file.content, i, i + max_chunk_size),
     chunk_index |-> FloorDiv(i, max_chunk_size) + 1,
     modified |-> ctime(file.mtime)]

\* one window of lines 117-124 / 134-141
WindowChunk(file, i, max_chunk_size) ==
    [file |-> file.path,
     content |-> Slice(file.content, i, i + max_chunk_size),
     chunk_index |-> FloorDiv(i, max_chunk_size),
     modified |-> ctime(file.mtime)]

WholeChunk(file) ==
    [file |-> file.path, content |-> file.content, modified |-> ctime(file.mtime)]

Returned(chunks) == [raised |-> "", chunks |-> chunks]
Raised(exc) == [raised |-> exc, chunks |-> <<>>]

\* lines 107-124: the except branch, basic chunking after a parse failure
FallbackChunks(file, max_chunk_size) ==
    LET file_size == Len(file.content) IN
    IF file_size <= max_chunk_size THEN Returned(<<WholeChunk(file)>>)
    ELSE IF max_chunk_size = 0 THEN Raised("ValueError")
    ELSE LET starts == Range(0, file_size, max_chunk_size)
         IN Returned([j \in 1..Len(starts) |-> WindowChunk(file, starts[j], max_chunk_size)])

\* a file of exactly max_chunk_size characters is windowed
BasicChunksStrict(file, max_chunk_size) ==
    LET file_size == Len(file.content) IN
    IF file_size < max_chunk_size THEN Returned(<<WholeChunk(file)>>)
    ELSE IF max_chunk_size = 0 THEN Raised("ValueError")
    ELSE LET starts == Range(0, file_size, max_chunk_size)
         IN Returned([j \in 1..Len(starts) |-> WindowChunk(file, starts[j], max_chunk_size)])

\* lines 125-141: basic chunking of a file that is not Python
BasicChunks(file, max_chunk_size) ==
    LET file_size == Len(file.content) IN
    IF file_size <= max_chunk_size THEN Returned(<<WholeChunk(file)>>)
    ELSE IF max_chunk_size = 0 THEN Raised("ValueError")
    ELSE LET starts == Range(0, file_size, max_chunk_size)
         IN Returned([j \in 1..Len(starts) |-> WindowChunk(file, starts[j], max_chunk_size)])

\* a parse error skips the file
PythonChunksSkipping(file, max_chunk_size) ==
    IF file.ast.raises
    THEN Returned(<<>>)
    ELSE Returned(StructuralChunks(file))

\* a parsed file without definitions is chunked as text
PythonChunksWindowingPlainCode(file, max_chunk_size) ==
    IF file.ast.raises \/ StructuralChunks(file) = <<>>
    THEN FallbackChunks(file, max_chunk_size)
    ELSE Returned(StructuralChunks(file))

\* lines 89-124: a Python file is parsed; a parse error falls back to basic chunking
PythonChunks(file, max_chunk_size) ==
    IF file.ast.raises
    THEN FallbackChunks(file, max_chunk_size)
    ELSE Returned(StructuralChunks(file))

\* lines 80-141: the body of the loop for one file
FileChunks(file, max_chunk_size) ==
    IF file.content = <<>> THEN Returned(<<>>)
    ELSE IF lower(splitext(file.path)[2]) = ".py"
         THEN PythonChunks(file, max_chunk_size)
         ELSE BasicChunks(file, max_chunk_size)

\* lines 78-142: the loop over the files; an exception of one file ends the call
RECURSIVE ChunkLoop(_, _, _, _)

\* a loop that a parse error leaves
ChunkLoopBreaking(fs, i, max_chunk_size, chunks) ==
    IF i > Len(fs) THEN Returned(chunks)
    ELSE LET r == FileChunks(fs[i], max_chunk_size)
         IN IF r.raised /= "" THEN r
            ELSE IF fs[i].content /= <<>> /\ fs[i].ast.raises /\ fs[i].path[2] = ".py"
                 THEN Returned(chunks \o r.chunks)
                 ELSE ChunkLoop(fs, i + 1, max_chunk_size, chunks \o r.chunks)

ChunkLoop(fs, i, max_chunk_size, chunks) ==
    IF i > Len(fs) THEN Returned(chunks)
    ELSE LET r == FileChunks(fs[i], max_chunk_size)
         IN IF r.raised /= "" THEN r
            ELSE ChunkLoop(fs, i + 1, max_chunk_size, chunks \o r.chunks)

get_code_chunks(fs, max_chunk_size) == ChunkLoop(fs, 1, max_chunk_size, <<>>)

ChunkSizes == (0 - 1)..MaxM

NoCall == [op |-> "none"]

\* A file appears in the repository
WriteFile ==
    /\ Len(files) < Len(Stems)
    /\ \E src \in PySources \cup TextSources :
         LET ext == IF src \in PySources THEN ".py" ELSE ".txt"
         IN files' = Append(files, FileOf(Stems[Len(files) + 1], ext, src, Len(files) + 1))
    /\ chunker' = NoCall
    /\ UNCHANGED retrievalVars
    /\ UNCHANGED indicatorVars
    /\ UNCHANGED selectorVars
    /\ UNCHANGED command

\* repo_manager.get_code_chunks(max_chunk_size)
GetCodeChunks ==
    /\ \E m \in ChunkSizes :
         LET r == get_code_chunks(files, m)
         IN chunker' = [op |-> "get_code_chunks", max_chunk_size |-> m,
                        raised |-> r.raised, chunks |-> r.chunks]
    /\ UNCHANGED files
    /\ UNCHANGED retrievalVars
    /\ UNCHANGED indicatorVars
    /\ UNCHANGED selectorVars
    /\ UNCHANGED command

\* no RetrievalModule is constructed by the commands that chunk a repository
InitRetrievalIdle ==
    /\ embedding_dim = 0
    /\ index = <<>>
    /\ chunk_mapping = <<>>
    /\ call = NoCall
    /\ last_rebuild = [reached |-> FALSE, chunks |-> <<>>]
    /\ backend = [encode_empty_2d |-> FALSE, k0_ok |-> FALSE]
    /\ rebuilder = [pc |-> "idle"]
    /\ searcher = [pc |-> "idle"]

InitChunker ==
    /\ files = <<>>
    /\ chunker = NoCall
    /\ command = NoCall
    /\ InitIndicatorIdle
    /\ InitSelectorIdle
    /\ InitRetrievalIdle

NextChunker == WriteFile \/ GetCodeChunks

SpecChunker == InitChunker /\ [][NextChunker]_vars

----------------------------------------------------------------------------
(* Properties of get_code_chunks *)

\* a windowed (text-window) chunk carries no type and no name
IsWindow(c) == "type" \notin DOMAIN c

WindowIndex(c) == IF "chunk_index" \in DOMAIN c THEN c.chunk_index ELSE 0

ChunksOf(chunks, path) == SelectSeq(chunks, LAMBDA c : c.file = path)

WindowsOf(chunks, path) == SelectSeq(chunks, LAMBDA c : c.file = path /\ IsWindow(c))

\* the contents of the chunks of w, joined in ascending chunk_index from index j on
RECURSIVE ReassembleFrom(_, _, _)
ReassembleFrom(w, j, last) ==
    IF j > last THEN <<>>
    ELSE LET at == SelectSeq(w, LAMBDA c : WindowIndex(c) = j)
             RECURSIVE Cat(_)
             Cat(cs) == IF cs = <<>> THEN <<>> ELSE Head(cs).content \o Cat(Tail(cs))
         IN Cat(at) \o ReassembleFrom(w, j + 1, last)

Reassemble(w) == ReassembleFrom(w, 0, Len(w) + MaxLen)

ChunkerReturned ==
    /\ chunker.op = "get_code_chunks"
    /\ chunker.raised = ""

ValidSize == chunker.op = "get_code_chunks" /\ chunker.max_chunk_size > 0

\* C1: for a positive max_chunk_size, the windowed chunks of every file that has any,
\* joined in ascending chunk_index, are the content of the file: no gap, no overlap,
\* no lost character.
C1_WindowsReassemble ==
    (ValidSize /\ ChunkerReturned) =>
        \A i \in 1..Len(files) :
            LET w == WindowsOf(chunker.chunks, files[i].path)
            IN w /= <<>> => Reassemble(w) = files[i].content

\* a file was split into several windows, the last one shorter than the others
C1_Witness ==
    /\ ValidSize /\ ChunkerReturned
    /\ \E i \in 1..Len(files) :
         LET w == WindowsOf(chunker.chunks, files[i].path)
         IN /\ Len(w) >= 2
            /\ Len(w[Len(w)].content) < chunker.max_chunk_size
            /\ Reassemble(w) = files[i].content

FailsToParse(file) ==
    /\ lower(splitext(file.path)[2]) = ".py"
    /\ file.content /= <<>>
    /\ file.ast.raises

\* C6: for a positive max_chunk_size, a .py file that fails to parse yields at least
\* one chunk, every chunk of it is a windowed chunk, and the call raises nothing.
C6_ParseFailureFallsBack ==
    (ValidSize /\ \E i \in 1..Len(files) : FailsToParse(files[i])) =>
        /\ chunker.raised = ""
        /\ \A i \in 1..Len(files) :
             FailsToParse(files[i]) =>
                /\ ChunksOf(chunker.chunks, files[i].path) /= <<>>
                /\ \A j \in 1..Len(chunker.chunks) :
                     chunker.chunks[j].file = files[i].path => IsWindow(chunker.chunks[j])

\* a failing .py file longer than max_chunk_size was windowed, beside a parsed one
C6_Witness ==
    /\ ValidSize /\ ChunkerReturned
    /\ \E i, j \in 1..Len(files) :
         /\ FailsToParse(files[i])
         /\ Len(WindowsOf(chunker.chunks, files[i].path)) >= 2
         /\ \E c \in 1..Len(chunker.chunks) :
              chunker.chunks[c].file = files[j].path /\ ~IsWindow(chunker.chunks[c])

Without(fs, i) == SubSeq(fs, 1, i - 1) \o SubSeq(fs, i + 1, Len(fs))

OthersOf(chunks, path) == SelectSeq(chunks, LAMBDA c : c.file /= path)

\* the same file with a content that parses
ParsedVariants(file) ==
    {[file EXCEPT !.ast = src.ast] :
        src \in {s \in PySources : s.content = file.content /\ ~s.ast.raises}}

IsBasic(file) ==
    \/ lower(splitext(file.path)[2]) /= ".py"
    \/ file.ast.raises

FitsWhole(file) ==
    /\ IsBasic(file)
    /\ Len(file.content) <= chunker.max_chunk_size

IsWholeChunkOf(c, file) ==
    /\ IsWindow(c)
    /\ c.content = file.content
    /\ "chunk_index" \notin DOMAIN c

\* C11 as claimed: every file that basic chunking handles and that is no longer than
\* max_chunk_size, one of length 0 included, has exactly one chunk in a returned list:
\* a windowed chunk with the whole content and no chunk_index.
C11_FittingFileIsOneChunk ==
    ChunkerReturned =>
        \A i \in 1..Len(files) :
            FitsWhole(files[i]) =>
                LET cs == ChunksOf(chunker.chunks, files[i].path)
                IN Len(cs) = 1 /\ IsWholeChunkOf(cs[1], files[i])

\* C11 amended: such a file of 1 to max_chunk_size characters has exactly one chunk,
\* a windowed chunk with the whole content and no chunk_index; a file of length 0
\* has no chunk at all.
C11_NonEmptyFittingFileIsOneChunk ==
    ChunkerReturned =>
        \A i \in 1..Len(files) :
            FitsWhole(files[i]) =>
                LET cs == ChunksOf(chunker.chunks, files[i].path)
                IN IF files[i].content = <<>>
                   THEN cs = <<>>
                   ELSE Len(cs) = 1 /\ IsWholeChunkOf(cs[1], files[i])

\* a file of exactly max_chunk_size characters and an empty file were chunked
C11_Witness ==
    /\ ChunkerReturned
    /\ \E i, j \in 1..Len(files) :
         /\ FitsWhole(files[i])
         /\ Len(files[i].content) = chunker.max_chunk_size
         /\ Len(files[i].content) >= 2
         /\ Len(ChunksOf(chunker.chunks, files[i].path)) = 1
         /\ FitsWhole(files[j])
         /\ files[j].content = <<>>
         /\ ChunksOf(chunker.chunks, files[j].path) = <<>>

IsOpaqueText(file) == lower(splitext(file.path)[2]) /= ".py"

\* the least n with n * m >= l, for m > 0
Ceil(l, m) == (l + m - 1) \div m

\* the characters of content at the zero-based positions lo .. hi - 1
CharsAt(content, lo, hi) == [p \in 1..(hi - lo) |-> content[lo + p]]

\* C12: for a positive max_chunk_size M, an opaque-text file of length L > M has
\* exactly ceil(L/M) chunks, all windowed; the j-th (from 0) has chunk_index j, holds
\* the characters [j*M, min((j+1)*M, L)) and has M characters unless it is the last.
C12_LongFileIsWindowed ==
    (ValidSize /\ ChunkerReturned) =>
        \A i \in 1..Len(files) :
            LET M == chunker.max_chunk_size
                L == Len(files[i].content)
                cs == ChunksOf(chunker.chunks, files[i].path)
            IN (IsOpaqueText(files[i]) /\ L > M) =>
                  /\ Len(cs) = Ceil(L, M)
                  /\ \A j \in 0..(Len(cs) - 1) :
                       /\ IsWindow(cs[j + 1])
                       /\ "chunk_index" \in DOMAIN cs[j + 1]
                       /\ cs[j + 1].chunk_index = j
                       /\ cs[j + 1].content = CharsAt(files[i].content, j * M, Min((j + 1) * M, L))
                       /\ (j < Len(cs) - 1 => Len(cs[j + 1].content) = M)

\* a file of max_chunk_size + 1 characters became two chunks, the second of length 1
C12_Witness ==
    /\ ValidSize /\ ChunkerReturned
    /\ \E i \in 1..Len(files) :
         LET cs == ChunksOf(chunker.chunks, files[i].path)
         IN /\ IsOpaqueText(files[i])
            /\ chunker.max_chunk_size >= 2
            /\ Len(files[i].content) = chunker.max_chunk_size + 1
            /\ Len(cs) = 2
            /\ cs[2].chunk_index = 1
            /\ Len(cs[2].content) = 1

\* a .py file with content that ast.parse accepts
IsParsedPy(file) ==
    /\ lower(splitext(file.path)[2]) = ".py"
    /\ file.content /= <<>>
    /\ ~file.ast.raises

\* the function and class definitions of a parsed file, at any depth
DefsOf(file) == {n \in 1..Len(file.ast.nodes) : IsDef(file.ast.nodes, n)}

KindOf(node) == IF node.type = "ClassDef" THEN "class" ELSE "function"

\* the line (from 1) that the p-th character of content lies on
LineOf(content, p) == 1 + Cardinality({q \in 1..(p - 1) : content[q] = NL})

\* the source lines a to b inclusive: every character on them but the newline that
\* ends line b
LineSpan(content, a, b) ==
    LET ps == SelectSeq([p \in 1..Len(content) |-> p],
                        LAMBDA p : /\ LineOf(content, p) \in a..b
                                   /\ ~(content[p] = NL /\ LineOf(content, p) = b))
    IN [k \in 1..Len(ps) |-> content[ps[k]]]

\* the positions in cs of the structural chunks named as node
ChunksNamed(cs, node) ==
    {k \in 1..Len(cs) : ~IsWindow(cs[k]) /\ cs[k].name = node.name}

NodeOf(file, c) ==
    CHOOSE n \in DefsOf(file) : file.ast.nodes[n].name = c.name

\* node o lies inside node n
RECURSIVE IsNestedIn(_, _, _)
IsNestedIn(tree, o, n) ==
    IF o = 0 THEN FALSE
    ELSE tree[o].parent = n \/ IsNestedIn(tree, tree[o].parent, n)

\* the depth of node n below the Module
RECURSIVE Depth(_, _)
Depth(tree, n) == IF n = 0 THEN 0 ELSE 1 + Depth(tree, tree[n].parent)

\* C14 as claimed: the chunks of a parsed .py file come in the document order of a
\* pre-order walk: the chunk of a definition before the chunks of the definitions nested
\* in it, and the chunks of a definition and of those nested in it before the chunk of
\* any definition that starts later.
C14_ChunksInPreOrder ==
    ChunkerReturned =>
        \A i \in 1..Len(files) :
            IsParsedPy(files[i]) =>
                LET cs == ChunksOf(chunker.chunks, files[i].path)
                    tree == files[i].ast.nodes
                IN \A k, l \in 1..Len(cs) :
                     LET n == NodeOf(files[i], cs[k])
                         o == NodeOf(files[i], cs[l])
                     IN /\ IsNestedIn(tree, o, n) => k < l
                        /\ (tree[n].lineno < tree[o].lineno /\ ~IsNestedIn(tree, o, n)) => k < l

\* C14 amended: the chunks of a parsed .py file come in the breadth-first order of
\* ast.walk: a definition whose node lies less deep in the tree comes before one that
\* lies deeper, and definitions of the same depth come in document order. So the chunk
\* of a definition precedes the chunks of the definitions nested in it.
C14_ChunksInBreadthFirstOrder ==
    ChunkerReturned =>
        \A i \in 1..Len(files) :
            IsParsedPy(files[i]) =>
                LET cs == ChunksOf(chunker.chunks, files[i].path)
                    tree == files[i].ast.nodes
                IN \A k, l \in 1..Len(cs) :
                     LET n == NodeOf(files[i], cs[k])
                         o == NodeOf(files[i], cs[l])
                     IN /\ IsNestedIn(tree, o, n) => k < l
                        /\ Depth(tree, n) < Depth(tree, o) => k < l
                        /\ (Depth(tree, n) = Depth(tree, o)
                              /\ tree[n].lineno < tree[o].lineno) => k < l

\* the chunk of a nested definition follows the chunk of a definition that starts
\* after it
C14_Witness ==
    /\ ChunkerReturned
    /\ \E i \in 1..Len(files) :
         LET cs == ChunksOf(chunker.chunks, files[i].path)
             tree == files[i].ast.nodes
         IN /\ IsParsedPy(files[i])
            /\ Len(cs) = 3
            /\ IsNestedIn(tree, NodeOf(files[i], cs[3]), NodeOf(files[i], cs[1]))
            /\ tree[NodeOf(files[i], cs[3])].lineno < tree[NodeOf(files[i], cs[2])].lineno

\* C15: a call with a max_chunk_size of zero or less ends in InvalidConfiguration: it
\* returns no chunk list and raises nothing else.
C15_NonPositiveSizeIsRejected ==
    (chunker.op = "get_code_chunks" /\ chunker.max_chunk_size <= 0) =>
        chunker.raised = "InvalidConfiguration"

\* the lines (from 1) of a parsed file that lie in no function or class definition
LinesOutsideDefs(file) ==
    {l \in 1..Len(splitlines(file.content)) :
        \A n \in DefsOf(file) :
            ~(file.ast.nodes[n].lineno <= l /\ l <= file.ast.nodes[n].end_lineno)}

\* the text of line l of a file is a line of chunk c
HoldsLine(c, file, l) ==
    \E k \in 1..Len(splitlines(c.content)) :
        splitlines(c.content)[k] = splitlines(file.content)[l]

----------------------------------------------------------------------------
(* RetrievalModule: the embedding model and the faiss index *)

MaxChunks == 2   \* longest chunk list passed to embed_chunks, but for ThreeChunks
MaxK == 3        \* largest top_k passed to search

\* SentenceTransformer.encode is a fixed function of the text. Coordinates are in
\* tenths: the text "t10" lies at (1.0, 0), the query "q01" at (0.1, 0).
Embedding ==
    [t \in {"t00", "t10", "t55", "q01", "q05"} |->
        CASE t = "t00" -> <<0, 0>>
          [] t = "t10" -> <<10, 0>>
          [] t = "t55" -> <<50, 50>>
          [] t = "q01" -> <<1, 0>>
          [] t = "q05" -> <<5, 0>>]

Queries == {"q01", "q05"}

\* the chunks handed to the retrieval module
RChunks ==
    {[file |-> "a.py", content |-> "t00"],
     [file |-> "a.py", content |-> "t10"],
     [file |-> "b.txt", content |-> "t55"]}

\* the chunks at (0,0), (1,0) and (5,5), in this order
ThreeChunks ==
    <<[file |-> "a.py", content |-> "t00"],
      [file |-> "a.py", content |-> "t10"],
      [file |-> "b.txt", content |-> "t55"]>>

ChunkLists == SeqsUpTo(RChunks, MaxChunks) \cup {ThreeChunks}

\* the dimension of the vectors of the embedding model
ModelDim == Len(Embedding["q01"])

\* the libraries differ between builds in two places: whether encode([]) returns an
\* array of shape (0, D) or of shape (0,), and whether faiss accepts k = 0 or asserts
\* k > 0
Backends == [encode_empty_2d : BOOLEAN, k0_ok : BOOLEAN]

BackendError == "BackendError"

\* self.model.encode(texts, convert_to_numpy=True): an array, one row per text
encode(lib, texts) ==
    IF texts = <<>>
    THEN [ndim |-> IF lib.encode_empty_2d THEN 2 ELSE 1, rows |-> <<>>]
    ELSE [ndim |-> 2, rows |-> [i \in 1..Len(texts) |-> Embedding[texts[i]]]]

\* faiss.IndexFlatL2.add(x): n, d = x.shape; assert d == self.d
IndexAdd(d, xb, x) ==
    IF x.ndim /= 2 THEN [raised |-> "ValueError", index |-> xb]
    ELSE IF ModelDim /= d THEN [raised |-> "AssertionError", index |-> xb]
    ELSE [raised |-> "", index |-> xb \o x.rows]

\* squared Euclidean distance
L2(u, v) == (u[1] - v[1]) * (u[1] - v[1]) + (u[2] - v[2]) * (u[2] - v[2])

\* the k nearest labels (0-based), nearest first, equal distances by ascending label,
\* -1 where the index has no more vectors
RECURSIVE Nearest(_, _, _, _)
Nearest(xb, q, k, taken) ==
    IF k = 0 THEN <<>>
    ELSE LET left == (1..Len(xb)) \ taken
         IN IF left = {} THEN <<0 - 1>> \o Nearest(xb, q, k - 1, taken)
            ELSE LET best == CHOOSE i \in left : \A j \in left :
                                \/ L2(xb[i], q) < L2(xb[j], q)
                                \/ L2(xb[i], q) = L2(xb[j], q) /\ i <= j
                 IN <<best - 1>> \o Nearest(xb, q, k - 1, taken \cup {best})

\* a search that does not compare the dimensions
IndexSearchUnchecked(lib, d, xb, x, k) ==
    IF k = 0 /\ ~lib.k0_ok THEN [raised |-> "AssertionError", indices |-> <<>>]
    ELSE [raised |-> "", indices |-> Nearest(xb, x.rows[1], k, {})]

\* faiss.IndexFlatL2.search(x, k) for one query row: assert d == self.d (and k > 0)
IndexSearch(lib, d, xb, x, k) ==
    IF ModelDim /= d THEN [raised |-> "AssertionError", indices |-> <<>>]
    ELSE IF k = 0 /\ ~lib.k0_ok THEN [raised |-> "AssertionError", indices |-> <<>>]
    ELSE [raised |-> "", indices |-> Nearest(xb, x.rows[1], k, {})]

\* line 28: [self.chunk_mapping[idx] for idx in indices[0] if idx < len(self.chunk_mapping)]
\* a negative idx counts from the end of the list; IndexError outside the list
RECURSIVE Lookup(_, _)
Lookup(mapping, indices) ==
    IF indices = <<>> THEN [raised |-> "", results |-> <<>>]
    ELSE LET idx == Head(indices)
             rest == Lookup(mapping, Tail(indices))
         IN IF ~(idx < Len(mapping)) THEN rest
            ELSE IF idx < 0 - Len(mapping) THEN [raised |-> "IndexError", results |-> <<>>]
            ELSE IF rest.raised /= "" THEN rest
            ELSE [raised |-> "",
                  results |-> <<mapping[IF idx >= 0 THEN idx + 1 ELSE Len(mapping) + idx + 1]>>
                              \o rest.results]

Contents_(code_chunks) == [i \in 1..Len(code_chunks) |-> code_chunks[i].content]

\* embed_chunks without index.reset(): the new vectors are added to the old ones
embed_chunksAppending(self, lib, code_chunks, fails) ==
    LET texts == Contents_(code_chunks)
        embeddings == encode(lib, texts)
        added == IndexAdd(self.embedding_dim, self.index, embeddings)
    IN IF fails
       THEN [self |-> self, raised |-> BackendError, encoded |-> <<texts>>, reset |-> FALSE]
       ELSE IF added.raised /= ""
       THEN [self |-> self, raised |-> added.raised, encoded |-> <<texts>>, reset |-> TRUE]
       ELSE [self |-> [self EXCEPT !.index = added.index, !.chunk_mapping = code_chunks],
             raised |-> "", encoded |-> <<texts>>, reset |-> TRUE]

\* embed_chunks with index.reset() before the call of the embedding model
embed_chunksResettingFirst(self, lib, code_chunks, fails) ==
    LET texts == Contents_(code_chunks)
        embeddings == encode(lib, texts)
        added == IndexAdd(self.embedding_dim, <<>>, embeddings)
    IN IF fails
       THEN [self |-> [self EXCEPT !.index = <<>>], raised |-> BackendError,
             encoded |-> <<texts>>, reset |-> TRUE]
       ELSE IF added.raised /= ""
       THEN [self |-> [self EXCEPT !.index = <<>>], raised |-> added.raised,
             encoded |-> <<texts>>, reset |-> TRUE]
       ELSE [self |-> [self EXCEPT !.index = added.index, !.chunk_mapping = code_chunks],
             raised |-> "", encoded |-> <<texts>>, reset |-> TRUE]

\* RetrievalModule.embed_chunks (lines 17-23) on self = [embedding_dim, index,
\* chunk_mapping]; fails: the embedding backend raises. reset: line 20 was reached.
embed_chunks(self, lib, code_chunks, fails) ==
    LET texts == Contents_(code_chunks)
        embeddings == encode(lib, texts)
        added == IndexAdd(self.embedding_dim, <<>>, embeddings)
    IN IF fails
       THEN [self |-> self, raised |-> BackendError, encoded |-> <<texts>>, reset |-> FALSE]
       ELSE IF added.raised /= ""
       THEN [self |-> [self EXCEPT !.index = <<>>], raised |-> added.raised,
             encoded |-> <<texts>>, reset |-> TRUE]
       ELSE [self |-> [self EXCEPT !.index = added.index, !.chunk_mapping = code_chunks],
             raised |-> "", encoded |-> <<texts>>, reset |-> TRUE]

\* a search that swallows the error of the backend into an empty result
searchSwallowing(self, lib, query, top_k, fails) ==
    LET query_embedding == encode(lib, <<query>>)
        found == IndexSearch(lib, self.embedding_dim, self.index, query_embedding, top_k)
        looked == Lookup(self.chunk_mapping, found.indices)
    IN IF fails
       THEN [raised |-> "", results |-> <<>>, encoded |-> <<<<query>>>>]
       ELSE IF found.raised /= ""
       THEN [raised |-> found.raised, results |-> <<>>, encoded |-> <<<<query>>>>]
       ELSE [raised |-> looked.raised, results |-> looked.results,
             encoded |-> <<<<query>>>>]

\* RetrievalModule.search (lines 25-29)
search(self, lib, query, top_k, fails) ==
    LET query_embedding == encode(lib, <<query>>)
        found == IndexSearch(lib, self.embedding_dim, self.index, query_embedding, top_k)
        looked == Lookup(self.chunk_mapping, found.indices)
    IN IF fails
       THEN [raised |-> BackendError, results |-> <<>>, encoded |-> <<<<query>>>>]
       ELSE IF found.raised /= ""
       THEN [raised |-> found.raised, results |-> <<>>, encoded |-> <<<<query>>>>]
       ELSE [raised |-> looked.raised, results |-> looked.results,
             encoded |-> <<<<query>>>>]

Self == [embedding_dim |-> embedding_dim, index |-> index, chunk_mapping |-> chunk_mapping]

\* RetrievalModule(embedding_dim) (lines 11-15) with the libraries of some build
Init ==
    /\ files = <<>>
    /\ chunker = NoCall
    /\ command = NoCall
    /\ InitIndicatorIdle
    /\ InitSelectorIdle
    /\ embedding_dim \in {ModelDim, ModelDim + 1}
    /\ index = <<>>
    /\ chunk_mapping = <<>>
    /\ call = NoCall
    /\ last_rebuild = [reached |-> FALSE, chunks |-> <<>>]
    /\ backend \in Backends
    /\ rebuilder = [pc |-> "idle"]
    /\ searcher = [pc |-> "idle"]

\* a call of embed_chunks(code_chunks)
EmbedChunks ==
    \E code_chunks \in ChunkLists, fails \in BOOLEAN :
        LET r == embed_chunks(Self, backend, code_chunks, fails)
        IN /\ index' = r.self.index
           /\ chunk_mapping' = r.self.chunk_mapping
           /\ last_rebuild' = IF r.reset THEN [reached |-> TRUE, chunks |-> code_chunks]
                               ELSE last_rebuild
           /\ call' = [op |-> "embed_chunks", code_chunks |-> code_chunks, fails |-> fails,
                       raised |-> r.raised, encoded |-> r.encoded]
           /\ UNCHANGED <<embedding_dim, backend, files, chunker, threadVars, command, indicatorVars, selectorVars>>

\* a call of search(query, top_k)
Search ==
    \E query \in Queries, top_k \in 0..MaxK, fails \in BOOLEAN :
        LET r == search(Self, backend, query, top_k, fails)
        IN /\ call' = [op |-> "search", query |-> query, top_k |-> top_k, fails |-> fails,
                       raised |-> r.raised, results |-> r.results, encoded |-> r.encoded,
                       fresh |-> call.op = "embed_chunks" /\ call.raised = ""]
           /\ UNCHANGED <<embedding_dim, index, chunk_mapping, last_rebuild, backend,
                          files, chunker, threadVars, command, indicatorVars, selectorVars>>

Next == EmbedChunks \/ Search

Spec == Init /\ [][Next]_vars

----------------------------------------------------------------------------
(* Properties of embed_chunks and search *)

DimsMatch == embedding_dim = ModelDim

VectorsOf(code_chunks) == [i \in 1..Len(code_chunks) |-> Embedding[code_chunks[i].content]]

\* vector i of the index is the embedding of chunk i of the mapping
Consistent == index = VectorsOf(chunk_mapping)

\* the last call was a search during which the backend did not fail
Searched == call.op = "search" /\ ~call.fails

Count(seq, x) == Cardinality({i \in 1..Len(seq) : seq[i] = x})

\* C2: a search with k >= 0 on an index of n entries returns exactly min(k, n)
\* chunks, each a distinct stored entry (no error, no repeated or padded entry).
\* (k = 0 is only required to return nothing when it returns: a faiss that asserts
\* k > 0 is not held against the code here.)
C2_SearchReturnsMinKN ==
    (Searched /\ DimsMatch /\ Consistent) =>
        /\ call.top_k >= 1 => call.raised = ""
        /\ call.raised = "" =>
             /\ Len(call.results) = Min(call.top_k, Len(chunk_mapping))
             /\ \A i \in 1..Len(call.results) :
                  Count(call.results, call.results[i])
                      <= Count(chunk_mapping, call.results[i])

\* the place of entry i in the ranking: the entries nearer to the query, and the
\* entries as near that were passed to the rebuild before it
RankOf(code_chunks, q, i) ==
    LET v == VectorsOf(code_chunks)
    IN Cardinality({j \in 1..Len(v) :
           \/ L2(v[j], q) < L2(v[i], q)
           \/ L2(v[j], q) = L2(v[i], q) /\ j < i})

Ranked(code_chunks, q) ==
    [r \in 1..Len(code_chunks) |->
        code_chunks[CHOOSE i \in 1..Len(code_chunks) : RankOf(code_chunks, q, i) = r - 1]]

\* C3: the chunks a search returns are in ascending squared Euclidean distance from
\* the query, entries at equal distance in the order of the last rebuild; with
\* (0,0), (1,0), (5,5) stored, the query (0.1, 0) and k = 2 give (0,0) then (1,0).
C3_SearchOrderedByDistance ==
    (Searched /\ DimsMatch /\ Consistent /\ call.raised = "") =>
        LET ranked == Ranked(chunk_mapping, Embedding[call.query])
        IN /\ Len(call.results) <= Len(ranked)
           /\ \A r \in 1..Len(call.results) : r <= Len(ranked) => call.results[r] = ranked[r]
           /\ (chunk_mapping = ThreeChunks /\ call.query = "q01" /\ call.top_k = 2)
                => call.results = <<ThreeChunks[1], ThreeChunks[2]>>

\* C4: after any rebuilds the index holds exactly the entries of the last one, in
\* its order, vector i with chunk i; a search returns entries of the last rebuild
\* only, and after a rebuild with no entry every search returns the empty list.
C4_IndexHoldsLastRebuild ==
    (DimsMatch /\ last_rebuild.reached) =>
        /\ chunk_mapping = last_rebuild.chunks
        /\ index = VectorsOf(last_rebuild.chunks)
        /\ (Searched /\ call.top_k >= 1) =>
             /\ \A i \in 1..Len(call.results) :
                  \E j \in 1..Len(last_rebuild.chunks) :
                      call.results[i] = last_rebuild.chunks[j]
             /\ last_rebuild.chunks = <<>> => (call.raised = "" /\ call.results = <<>>)

\* C8: given an empty chunk list the retriever returns an empty list and never
\* calls model.encode, neither for the chunks nor for the query.
C8_EmptyChunksSkipEmbedder ==
    /\ (call.op = "embed_chunks" /\ call.code_chunks = <<>>) =>
            (call.encoded = <<>> /\ call.raised = "")
    /\ (call.op = "search" /\ call.fresh /\ chunk_mapping = <<>>) =>
            (call.encoded = <<>> /\ call.raised = "" /\ call.results = <<>>)

BackendFailed == call.op \in {"embed_chunks", "search"} /\ call.fails

\* C9 as claimed: an error of the embedding backend ends the call in a
\* RetrievalUnavailable error.
C9_BackendErrorIsRetrievalUnavailable ==
    BackendFailed => call.raised = "RetrievalUnavailable"

\* C9 as amended: an error of the embedding backend ends the call in the error of
\* the backend itself, never in a returned list, and no other call ends in it.
C9_BackendErrorPropagates ==
    /\ BackendFailed => call.raised = BackendError
    /\ (call.op \in {"embed_chunks", "search"} /\ call.raised = BackendError) => call.fails

\* the backend failed on the query of a search over a non-empty index
C9_Witness ==
    /\ call.op = "search" /\ call.fails
    /\ call.raised = BackendError
    /\ DimsMatch /\ chunk_mapping /= <<>> /\ call.top_k >= 1

\* C10: embed_chunks(chunks) then search(query, k), run again on the state the first
\* run left, with a backend that does not fail, ends as the first run did: the same
\* ranked chunks, or the same error.
C10_RetrieveIdempotent ==
    (Searched /\ call.fresh) =>
        LET again == embed_chunks(Self, backend, chunk_mapping, FALSE)
            found == search(again.self, backend, call.query, call.top_k, FALSE)
        IN /\ again.raised = ""
           /\ found.raised = call.raised
           /\ found.results = call.results

\* a retrieval over two chunks as near to the query as each other returned both
C10_Witness ==
    /\ Searched /\ call.fresh
    /\ call.raised = ""
    /\ call.query = "q05"
    /\ Len(call.results) = 2
    /\ call.results[1].content = "t10" /\ call.results[2].content = "t00"

\* the last call was a search, without a failure of the backend, on a module whose
\* index dimension is not the dimension of the vectors of the embedding model
MismatchedSearch == Searched /\ ~DimsMatch

\* C16 as claimed: a search with a query vector of another dimension than the index
\* ends in DimensionMismatch and returns no chunk.
C16_MismatchIsDimensionMismatch ==
    MismatchedSearch => (call.raised = "DimensionMismatch" /\ call.results = <<>>)

\* C16 amended: a search with a query vector of another dimension than the index ends
\* in the AssertionError of faiss, returns no chunk and changes neither the index nor
\* chunk_mapping.
C16_MismatchIsAssertionError ==
    [][(call'.op = "search" /\ ~call'.fails /\ ~DimsMatch) =>
          /\ call'.raised = "AssertionError"
          /\ call'.results = <<>>
          /\ index' = index
          /\ chunk_mapping' = chunk_mapping]_vars

\* a search on a module built with another dimension than the model's ended in the
\* assertion of the index
C16_Witness ==
    /\ MismatchedSearch
    /\ embedding_dim = ModelDim + 1
    /\ call.top_k >= 1
    /\ call.raised = "AssertionError"
    /\ call.results = <<>>

----------------------------------------------------------------------------
(* embed_chunks and search called from two threads on one RetrievalModule. A step *)
(* is one line of the method; each library call is taken as atomic.              *)

\* every add of this specification succeeds: the dimensions agree and no chunk
\* list is empty
InitConcurrent ==
    /\ files = <<>>
    /\ chunker = NoCall
    /\ command = NoCall
    /\ InitIndicatorIdle
    /\ InitSelectorIdle
    /\ embedding_dim = ModelDim
    /\ index = <<>>
    /\ chunk_mapping = <<>>
    /\ call = NoCall
    /\ last_rebuild = [reached |-> FALSE, chunks |-> <<>>]
    /\ backend \in Backends
    /\ rebuilder = [pc |-> "idle"]
    /\ searcher = [pc |-> "idle"]

\* the chunk lists of the rebuilding thread: the chunks of one file
RebuildLists == SeqsUpTo({c \in RChunks : c.file = "a.py"}, MaxChunks) \ {<<>>}

\* line 18: embed_chunks is entered, texts is built
RebuildCall ==
    /\ rebuilder.pc = "idle"
    /\ \E code_chunks \in RebuildLists :
         rebuilder' = [pc |-> "encode", code_chunks |-> code_chunks]
    /\ UNCHANGED <<embedding_dim, index, chunk_mapping, call, last_rebuild, backend,
                   searcher, files, chunker, command, indicatorVars, selectorVars>>

\* line 19: embeddings = self.model.encode(texts); an error of the backend ends the call
RebuildEncode ==
    /\ rebuilder.pc = "encode"
    /\ \E fails \in BOOLEAN :
         rebuilder' = IF fails THEN [pc |-> "idle"]
                      ELSE [pc |-> "reset", code_chunks |-> rebuilder.code_chunks,
                            embeddings |-> encode(backend, Contents_(rebuilder.code_chunks))]
    /\ UNCHANGED <<embedding_dim, index, chunk_mapping, call, last_rebuild, backend,
                   searcher, files, chunker, command, indicatorVars, selectorVars>>

\* line 20: self.index.reset()
RebuildReset ==
    /\ rebuilder.pc = "reset"
    /\ index' = <<>>
    /\ last_rebuild' = [reached |-> TRUE, chunks |-> rebuilder.code_chunks]
    /\ rebuilder' = [rebuilder EXCEPT !.pc = "add"]
    /\ UNCHANGED <<embedding_dim, chunk_mapping, call, backend, searcher, files, chunker, command, indicatorVars, selectorVars>>

\* line 21: self.index.add(embeddings)
RebuildAdd ==
    /\ rebuilder.pc = "add"
    /\ LET added == IndexAdd(embedding_dim, index, rebuilder.embeddings)
       IN /\ index' = added.index
          /\ rebuilder' = IF added.raised /= "" THEN [pc |-> "idle"]
                           ELSE [pc |-> "assign", code_chunks |-> rebuilder.code_chunks]
    /\ UNCHANGED <<embedding_dim, chunk_mapping, call, last_rebuild, backend, searcher,
                   files, chunker, command, indicatorVars, selectorVars>>

\* lines 22-23: self.chunk_mapping = code_chunks; return
RebuildAssign ==
    /\ rebuilder.pc = "assign"
    /\ chunk_mapping' = rebuilder.code_chunks
    /\ rebuilder' = [pc |-> "idle"]
    /\ UNCHANGED <<embedding_dim, index, call, last_rebuild, backend, searcher,
                   files, chunker, command, indicatorVars, selectorVars>>

\* search(query, top_k) is entered
SearchCall ==
    /\ searcher.pc = "idle"
    /\ \E query \in Queries, top_k \in 0..MaxK :
         searcher' = [pc |-> "encode", query |-> query, top_k |-> top_k]
    /\ call' = NoCall
    /\ UNCHANGED <<embedding_dim, index, chunk_mapping, last_rebuild, backend, rebuilder,
                   files, chunker, command, indicatorVars, selectorVars>>

SearchEnds(raised, results, seen_index, fails) ==
    /\ searcher' = [pc |-> "idle"]
    /\ call' = [op |-> "search", query |-> searcher.query, top_k |-> searcher.top_k,
                fails |-> fails, raised |-> raised, results |-> results,
                encoded |-> <<<<searcher.query>>>>, fresh |-> FALSE,
                seen_index |-> seen_index, seen_mapping |-> chunk_mapping]

\* line 26: query_embedding = self.model.encode([query])
SearchEncode ==
    /\ searcher.pc = "encode"
    /\ \E fails \in BOOLEAN :
         IF fails
         THEN SearchEnds(BackendError, <<>>, index, TRUE)
         ELSE /\ searcher' = [pc |-> "search", query |-> searcher.query,
                              top_k |-> searcher.top_k,
                              query_embedding |-> encode(backend, <<searcher.query>>)]
              /\ UNCHANGED call
    /\ UNCHANGED <<embedding_dim, index, chunk_mapping, last_rebuild, backend, rebuilder,
                   files, chunker, command, indicatorVars, selectorVars>>

\* line 27: distances, indices = self.index.search(query_embedding, top_k)
SearchIndex ==
    /\ searcher.pc = "search"
    /\ LET found == IndexSearch(backend, embedding_dim, index, searcher.query_embedding,
                                searcher.top_k)
       IN IF found.raised /= ""
          THEN SearchEnds(found.raised, <<>>, index, FALSE)
          ELSE /\ searcher' = [pc |-> "lookup", query |-> searcher.query,
                               top_k |-> searcher.top_k, indices |-> found.indices,
                               seen_index |-> index]
               /\ UNCHANGED call
    /\ UNCHANGED <<embedding_dim, index, chunk_mapping, last_rebuild, backend, rebuilder,
                   files, chunker, command, indicatorVars, selectorVars>>

\* lines 28-29: the chunks of the labels are looked up and returned
SearchLookup ==
    /\ searcher.pc = "lookup"
    /\ LET looked == Lookup(chunk_mapping, searcher.indices)
       IN SearchEnds(looked.raised, looked.results, searcher.seen_index, FALSE)
    /\ UNCHANGED <<embedding_dim, index, chunk_mapping, last_rebuild, backend, rebuilder,
                   files, chunker, command, indicatorVars, selectorVars>>

NextConcurrent ==
    \/ RebuildCall \/ RebuildEncode \/ RebuildReset \/ RebuildAdd \/ RebuildAssign
    \/ SearchCall \/ SearchEncode \/ SearchIndex \/ SearchLookup

SpecConcurrent == InitConcurrent /\ [][NextConcurrent]_vars

\* the search went through lines 27 and 28
LookedUp == call.op = "search" /\ ~call.fails /\ call.raised \in {"", "IndexError"}

\* C5: a search that runs while the index is rebuilt observes the complete contents
\* of before the rebuild or the complete contents of after it: the vectors it
\* searched are the vectors of the chunk mapping it answered from, never an emptied
\* index, never the new vectors with the old mapping.
C5_RebuildAtomicForSearch ==
    LookedUp => call.seen_index = VectorsOf(call.seen_mapping)

----------------------------------------------------------------------------
(* PromptEngineer.build_prompt and the commands of main.py that build a prompt. *)
(* A prompt is the sequence of its pieces: the literal pieces of the f-strings   *)
(* as they are, the formatted values spliced in between them.                    *)

PromptLimit == 3            \* code_chunks[:3]
DefaultChunkSize == 1000    \* get_code_chunks(max_chunk_size=1000)

\* chunk.get(key, default)
Get(chunk, key, default) == IF key \in DOMAIN chunk THEN chunk[key] ELSE default

\* the sections of the first three chunks, last one first
RECURSIVE SectionsReversed(_)
SectionsReversed(chunks) ==
    IF chunks = <<>> THEN <<>>
    ELSE LET chunk == Head(chunks)
             file == Get(chunk, "file", <<"unknown">>)
             content == Get(chunk, "content", <<>>)
         IN SectionsReversed(Tail(chunks))
            \o <<"\n--- File: ">> \o file \o <<" ---\n">> \o content \o <<"\n">>

\* lines 28-31: one section per chunk, appended in the order of the list
RECURSIVE Sections(_)
Sections(chunks) ==
    IF chunks = <<>> THEN <<>>
    ELSE LET chunk == Head(chunks)
             file == Get(chunk, "file", <<"unknown">>)
             content == Get(chunk, "content", <<>>)
         IN <<"\n--- File: ">> \o file \o <<" ---\n">> \o content \o <<"\n">>
            \o Sections(Tail(chunks))

\* PromptEngineer.build_prompt (lines 17-32)
build_prompt(query_text, code_chunks) ==
    <<"User Query: ", query_text, "\n\n">>
    \o <<"Code Context:\n">>
    \o Sections(Slice(code_chunks, 0, PromptLimit))

QueryTexts == {"How to add two numbers?"}

\* what LLMIntegration.send_prompt returns: the response, "" after any failure
Responses == {"", "answer"}

Exited(steps, echoed) ==
    [steps |-> steps, exit_code |-> 1, echoed |-> echoed,
     handed |-> <<>>, handed_from |-> "", prompt |-> <<>>]

\* a query command that hands build_prompt the result of a search over the chunks
run_queryRetrieving(fs, query_text, repo_path_set, loads, response) ==
    LET code_chunks == get_code_chunks(fs, DefaultChunkSize).chunks
        results == Slice(code_chunks, 0, PromptLimit)
    IN [steps |-> <<"load_repo_path", "load_repository", "get_code_chunks", "embed_chunks",
                    "search", "build_prompt", "indicator_thread.start", "send_prompt",
                    "stop_event.set", "indicator_thread.join">>,
        exit_code |-> 0,
        echoed |-> <<"LLM Response:", response>>,
        handed |-> results,
        handed_from |-> "search",
        prompt |-> build_prompt(query_text, results)]

\* main.query (lines 124-148). steps: the calls made, in their order; handed: the list
\* passed to build_prompt, handed_from: the call that returned it.
run_query(fs, query_text, repo_path_set, loads, response) ==
    IF ~repo_path_set
    THEN Exited(<<"load_repo_path">>,
                <<"Error: Repository not initialized. Run 'init-repo' first.">>)
    ELSE IF ~loads
    THEN Exited(<<"load_repo_path", "load_repository">>,
                <<"Error: Unable to load repository from stored path.">>)
    ELSE LET code_chunks == get_code_chunks(fs, DefaultChunkSize).chunks
         IN [steps |-> <<"load_repo_path", "load_repository", "get_code_chunks",
                         "build_prompt", "indicator_thread.start", "send_prompt",
                         "stop_event.set", "indicator_thread.join">>,
             exit_code |-> 0,
             echoed |-> IF response /= ""
                        THEN <<"LLM Response:", response>>
                        ELSE <<"Failed to get a response from the LLM.">>,
             handed |-> code_chunks,
             handed_from |-> "get_code_chunks",
             prompt |-> build_prompt(query_text, code_chunks)]

\* main.retrieve (lines 303-318) with resolve_path (lines 44-54)
run_retrieve(fs, query_text, full_path, repo_path_set, loads) ==
    IF ~full_path /\ ~repo_path_set
    THEN Exited(<<"load_repo_path">>,
                <<"Repository not initialized. Run 'init-repo' first.">>)
    ELSE IF ~loads
    THEN Exited((IF full_path THEN <<>> ELSE <<"load_repo_path">>) \o <<"load_repository">>,
                <<"Failed to load repository.">>)
    ELSE LET chunks == get_code_chunks(fs, DefaultChunkSize).chunks
             prompt == build_prompt(query_text, chunks)
         IN [steps |-> (IF full_path THEN <<>> ELSE <<"load_repo_path">>)
                       \o <<"load_repository", "get_code_chunks", "build_prompt">>,
             exit_code |-> 0,
             echoed |-> <<"Generated Prompt:">> \o prompt,
             handed |-> chunks,
             handed_from |-> "get_code_chunks",
             prompt |-> prompt]

\* The files of the repositories the commands run on: Python sources and short texts
RepoSources == PySources \cup {src \in TextSources : Len(src.content) <= 1}

\* A file is committed to the repository
CommitFile ==
    /\ Len(files) < Len(Stems)
    /\ \E src \in RepoSources :
         LET ext == IF src \in PySources THEN ".py" ELSE ".txt"
         IN files' = Append(files, FileOf(Stems[Len(files) + 1], ext, src, Len(files) + 1))
    /\ command' = NoCall
    /\ UNCHANGED chunker
    /\ UNCHANGED retrievalVars
    /\ UNCHANGED indicatorVars
    /\ UNCHANGED selectorVars

\* python main.py query "<query_text>"
QueryCommand ==
    /\ \E query_text \in QueryTexts, repo_path_set \in BOOLEAN, loads \in BOOLEAN,
          response \in Responses :
         LET r == run_query(files, query_text, repo_path_set, loads, response)
         IN command' = [op |-> "query", query |-> query_text, steps |-> r.steps,
                        exit_code |-> r.exit_code, echoed |-> r.echoed,
                        handed |-> r.handed, handed_from |-> r.handed_from,
                        prompt |-> r.prompt]
    /\ UNCHANGED <<files, chunker>>
    /\ UNCHANGED retrievalVars
    /\ UNCHANGED indicatorVars
    /\ UNCHANGED selectorVars

\* python main.py retrieve <repo_path> "<query>" [-p]
RetrieveCommand ==
    /\ \E query_text \in QueryTexts, full_path \in BOOLEAN, repo_path_set \in BOOLEAN,
          loads \in BOOLEAN :
         LET r == run_retrieve(files, query_text, full_path, repo_path_set, loads)
         IN command' = [op |-> "retrieve", query |-> query_text, steps |-> r.steps,
                        exit_code |-> r.exit_code, echoed |-> r.echoed,
                        handed |-> r.handed, handed_from |-> r.handed_from,
                        prompt |-> r.prompt]
    /\ UNCHANGED <<files, chunker>>
    /\ UNCHANGED retrievalVars
    /\ UNCHANGED indicatorVars
    /\ UNCHANGED selectorVars

InitCommands ==
    /\ files = <<>>
    /\ chunker = NoCall
    /\ command = NoCall
    /\ InitIndicatorIdle
    /\ InitSelectorIdle
    /\ InitRetrievalIdle

NextCommands == CommitFile \/ QueryCommand \/ RetrieveCommand

SpecCommands == InitCommands /\ [][NextCommands]_vars

----------------------------------------------------------------------------
(* Properties of build_prompt and of the commands *)

\* the last command built a prompt
BuiltPrompt ==
    /\ command.op \in {"query", "retrieve"}
    /\ \E k \in 1..Len(command.steps) : command.steps[k] = "build_prompt"

\* the pieces of a prompt between the occurrences of a piece
RECURSIVE SplitOn(_, _, _)
SplitOn(s, sep, cur) ==
    IF s = <<>> THEN <<cur>>
    ELSE IF Head(s) = sep THEN <<cur>> \o SplitOn(Tail(s), sep, <<>>)
    ELSE SplitOn(Tail(s), sep, Append(cur, Head(s)))

\* C17: the prompt is the query header followed by one section for each of the first
\* min(3, n) chunks of the list handed to build_prompt, in the order of the list, and
\* by nothing else.
C17_PromptKeepsFirstThreeInOrder ==
    BuiltPrompt =>
        LET parts == SplitOn(command.prompt, "\n--- File: ", <<>>)
            n == Len(command.handed)
        IN /\ Len(parts) = 1 + Min(3, n)
           /\ parts[1] = <<"User Query: ", command.query, "\n\n", "Code Context:\n">>
           /\ \A j \in 1..Min(3, n) :
                parts[j + 1] = command.handed[j].file \o <<" ---\n">>
                               \o command.handed[j].content \o <<"\n">>

\* a prompt was built from a list of more than three chunks with different contents
C17_Witness ==
    /\ BuiltPrompt
    /\ Len(command.handed) > 3
    /\ command.handed[1].content /= command.handed[2].content
    /\ command.handed[4].content /= command.handed[3].content
    /\ Len(SplitOn(command.prompt, "\n--- File: ", <<>>)) = 4

\* the calls of a command that belong to the retrieval pipeline
PipelineSteps(steps) ==
    SelectSeq(steps, LAMBDA st : st \in {"get_code_chunks", "embed_chunks", "search",
                                         "build_prompt"})

\* C18 as claimed: a command that builds a prompt chunks the repository, embeds the
\* chunks and rebuilds the index (embed_chunks), embeds the query and searches
\* (search) and then builds the prompt, from the list the search returned.
C18_PromptFromRankedSearch ==
    BuiltPrompt =>
        /\ PipelineSteps(command.steps)
             = <<"get_code_chunks", "embed_chunks", "search", "build_prompt">>
        /\ command.handed_from = "search"

\* C18 amended: a command that builds a prompt chunks the repository and then builds
\* the prompt, with no embedding, rebuild or search between, from the whole list that
\* get_code_chunks returned with the default max_chunk_size, in the chunker's order.
C18_PromptFromChunkerList ==
    BuiltPrompt =>
        /\ PipelineSteps(command.steps) = <<"get_code_chunks", "build_prompt">>
        /\ command.handed_from = "get_code_chunks"
        /\ command.handed = get_code_chunks(files, DefaultChunkSize).chunks
        /\ command.prompt = build_prompt(command.query, command.handed)

\* the query command built a prompt from the chunks of a repository with several files
C18_Witness ==
    /\ BuiltPrompt
    /\ command.op = "query"
    /\ Len(files) >= 2
    /\ Len(command.handed) > 3
    /\ command.handed[1].file /= command.handed[Len(command.handed)].file

----------------------------------------------------------------------------
(* main.query from line 137 on: the command waits for the LLM while the thread  *)
(* of thinking_indicator polls stop_event. A step is one line of the code.      *)

MaxLines == 2          \* most lines in the body of a reply of the LLM server
PollsPerRound == 10    \* for _ in range(10)

\* One line of a reply body, by what json.loads makes of it: an object with a
\* "response" key, an object without one, a list, a number, or no JSON at all
LineKinds == {"{response}", "{}", "[]", "1", "garbage"}

\* What requests.post and raise_for_status end in: an exception of requests, or a
\* reply with a body
Replies ==
    {[error |-> e, lines |-> <<>>] : e \in {"Timeout", "RequestException"}}
    \cup {[error |-> "", lines |-> ls] : ls \in SeqsUpTo(LineKinds, MaxLines)}

LLMReturned(value) == [raised |-> "", value |-> value]
LLMRaised(exc) == [raised |-> exc, value |-> <<>>]

\* lines 42-56: the "response" values of the lines that are JSON, put together;
\* a line that is no JSON is skipped, `"response" in data` raises on a number
RECURSIVE Accumulate(_)
Accumulate(lines) ==
    IF lines = <<>> THEN LLMReturned(<<>>)
    ELSE LET rest == Accumulate(Tail(lines))
         IN IF Head(lines) = "1" THEN LLMRaised("TypeError")
            ELSE IF rest.raised /= "" THEN rest
            ELSE IF Head(lines) = "{response}"
                 THEN LLMReturned(<<"answer">> \o rest.value)
                 ELSE rest

\* LLMIntegration.send_prompt (lines 22-62). A text is the sequence of its pieces,
\* the empty string is <<>>.
send_prompt(reply) ==
    IF reply.error /= "" THEN LLMReturned(<<>>)
    ELSE IF Len(reply.lines) = 1 /\ reply.lines[1] /= "garbage"
    THEN IF reply.lines[1] = "{response}" THEN LLMReturned(<<"answer">>)
         ELSE IF reply.lines[1] = "{}" THEN LLMReturned(<<>>)
         ELSE LLMRaised("AttributeError")
    ELSE Accumulate(reply.lines)

\* what the query command does not touch while it waits
otherVars == <<files, chunker, command, retrievalVars, selectorVars>>

\* line 140: indicator_thread.start()
StartIndicator ==
    /\ main_thread.pc = "start"
    /\ main_thread' = [main_thread EXCEPT !.pc = "send_prompt"]
    /\ indicator_thread' = [indicator_thread EXCEPT !.pc = "while"]
    /\ UNCHANGED stop_event
    /\ UNCHANGED otherVars

\* line 141: response = llm.send_prompt(prompt); an exception leaves query
SendPrompt ==
    /\ main_thread.pc = "send_prompt"
    /\ \E reply \in Replies :
         LET r == send_prompt(reply)
         IN main_thread' = IF r.raised /= ""
                           THEN [main_thread EXCEPT !.pc = "raised", !.raised = r.raised]
                           ELSE [main_thread EXCEPT !.pc = "set", !.response = r.value]
    /\ UNCHANGED <<indicator_thread, stop_event>>
    /\ UNCHANGED otherVars

\* line 142: stop_event.set()
SetStopEvent ==
    /\ main_thread.pc = "set"
    /\ stop_event' = TRUE
    /\ main_thread' = [main_thread EXCEPT !.pc = "join"]
    /\ UNCHANGED indicator_thread
    /\ UNCHANGED otherVars

\* line 143: indicator_thread.join() returns when the thread has ended
JoinIndicator ==
    /\ main_thread.pc = "join"
    /\ indicator_thread.pc = "done"
    /\ main_thread' = [main_thread EXCEPT !.pc = "echo"]
    /\ UNCHANGED <<indicator_thread, stop_event>>
    /\ UNCHANGED otherVars

\* lines 144-148
EchoResponse ==
    /\ main_thread.pc = "echo"
    /\ main_thread' =
         [main_thread EXCEPT
            !.pc = "done",
            !.echoed = IF main_thread.response /= <<>>
                       THEN <<"LLM Response:">> \o main_thread.response
                       ELSE <<"Failed to get a response from the LLM.">>]
    /\ UNCHANGED <<indicator_thread, stop_event>>
    /\ UNCHANGED otherVars

\* line 61: while not stop_event.is_set()
WhileTest ==
    /\ indicator_thread.pc = "while"
    /\ indicator_thread' =
         [indicator_thread EXCEPT !.pc = IF stop_event THEN "clear" ELSE "write"]
    /\ UNCHANGED <<main_thread, stop_event>>
    /\ UNCHANGED otherVars

\* lines 62-63
WriteThinking ==
    /\ indicator_thread.pc = "write"
    /\ indicator_thread' =
         [indicator_thread EXCEPT !.pc = "for", !.i = 0, !.wrote = "\rThinking...   "]
    /\ UNCHANGED <<main_thread, stop_event>>
    /\ UNCHANGED otherVars

\* lines 64-66: the next round of the for loop, left when the event is set
ForTest ==
    /\ indicator_thread.pc = "for"
    /\ indicator_thread' =
         [indicator_thread EXCEPT
            !.pc = IF indicator_thread.i >= PollsPerRound \/ stop_event
                   THEN "while" ELSE "sleep"]
    /\ UNCHANGED <<main_thread, stop_event>>
    /\ UNCHANGED otherVars

\* line 67: time.sleep(1). sleeps_after_set counts the sleeps that end after
\* stop_event was set.
Sleep ==
    /\ indicator_thread.pc = "sleep"
    /\ indicator_thread' =
         [indicator_thread EXCEPT
            !.pc = "for",
            !.i = indicator_thread.i + 1,
            !.sleeps_after_set = IF stop_event
                                 THEN Min(indicator_thread.sleeps_after_set + 1, 2)
                                 ELSE indicator_thread.sleeps_after_set]
    /\ UNCHANGED <<main_thread, stop_event>>
    /\ UNCHANGED otherVars

\* lines 68-69: the line is cleared and the thread ends
ClearLine ==
    /\ indicator_thread.pc = "clear"
    /\ indicator_thread' = [indicator_thread EXCEPT !.pc = "done", !.wrote = "\r"]
    /\ UNCHANGED <<main_thread, stop_event>>
    /\ UNCHANGED otherVars

\* lines 137-139 are done: the event is not set, the thread is created, not started
InitQuery ==
    /\ files = <<>>
    /\ chunker = NoCall
    /\ command = NoCall
    /\ InitRetrievalIdle
    /\ main_thread = [pc |-> "start", response |-> <<>>, raised |-> "", echoed |-> <<>>]
    /\ indicator_thread = [pc |-> "created", i |-> 0, wrote |-> "", sleeps_after_set |-> 0]
    /\ stop_event = FALSE
    /\ InitSelectorIdle

MainStep ==
    StartIndicator \/ SendPrompt \/ SetStopEvent \/ JoinIndicator \/ EchoResponse

IndicatorStep == WhileTest \/ WriteThinking \/ ForTest \/ Sleep \/ ClearLine

NextQuery ==
    \/ StartIndicator \/ SendPrompt \/ SetStopEvent \/ JoinIndicator \/ EchoResponse
    \/ WhileTest \/ WriteThinking \/ ForTest \/ Sleep \/ ClearLine

\* both threads are scheduled again and again, and send_prompt returns or raises
\* (requests.post has a timeout)
SpecQuery ==
    InitQuery /\ [][NextQuery]_vars /\ WF_vars(MainStep) /\ WF_vars(IndicatorStep)

----------------------------------------------------------------------------
(* Properties of the thinking indicator *)

IndicatorStarted == indicator_thread.pc /= "created"

\* C21: once the indicator thread is started, stop_event is eventually set and the
\* thread eventually ends, whatever send_prompt ends in; after the event is set the
\* thread ends at most one sleep later; nothing is echoed before the thread ended.
C21_IndicatorAlwaysTerminates ==
    /\ IndicatorStarted ~> stop_event
    /\ IndicatorStarted ~> (indicator_thread.pc = "done")
    /\ [](indicator_thread.sleeps_after_set <= 1)
    /\ [](main_thread.echoed /= <<>> => indicator_thread.pc = "done")

----------------------------------------------------------------------------
(* selective_apply (src/change_selector.py). A file is the sequence of its lines, *)
(* each with the bytes that end it; a text is what open(..., 'r') makes of it.    *)

MaxFileLines == 9    \* most lines of a file given to selective_apply
ContextLines == 3    \* difflib.unified_diff(..., n=3), the default

Line(kind, no, end) == [kind |-> kind, no |-> no, end |-> end]

\* the line endings a file can be stored with
LineEnds == {"\n", "\r\n"}

\* os.linesep: "\n" on POSIX, "\r\n" on Windows
LineSeps == {"\n", "\r\n"}

\* a file of n different lines
OriginalFile(n, end) == [i \in 1..n |-> Line("l", i, end)]

\* the same file with the lines of `changed` rewritten
ModifiedFile(n, changed, end) ==
    [i \in 1..n |-> Line(IF i \in changed THEN "x" ELSE "l", i, end)]

\* Pairs of files: the modified one differs in its first line, its last line, both or
\* none, and in its line endings or not
Disks ==
    UNION {{[original |-> OriginalFile(n, eo),
             modified |-> ModifiedFile(n, changed, em),
             linesep |-> sep] :
                changed \in SUBSET ({1, n} \cap 1..n), eo \in LineEnds, em \in LineEnds,
                sep \in LineSeps} :
           n \in 0..MaxFileLines}

\* open(path, 'r', encoding='utf-8'): universal newlines, every line ending reads "\n"
ReadText(bytes) == [i \in 1..Len(bytes) |-> [bytes[i] EXCEPT !.end = "\n"]]

\* open(path, 'w', encoding='utf-8') and write: every "\n" is written as os.linesep
WriteText(text, linesep) ==
    [i \in 1..Len(text) |-> [text[i] EXCEPT !.end = IF @ = "\n" THEN linesep ELSE @]]

\* the lines in which two texts of the same number of lines differ
Changed(a, b) == {i \in 1..Len(a) : a[i] /= b[i]}

\* a changed line opens a group of its own when more than 2 * n unchanged lines lie
\* between it and the changed line before it
GroupStarts(a, b) ==
    SelectSeq([i \in 1..Len(a) |-> i],
              LAMBDA i : /\ i \in Changed(a, b)
                         /\ \A j \in Changed(a, b) :
                              j < i => i - j - 1 > 2 * ContextLines)

RECURSIVE Groups(_)
Groups(starts) ==
    IF starts = <<>> THEN <<>>
    ELSE <<"@@", "-", "+">> \o Groups(Tail(starts))

\* list(difflib.unified_diff(original, modified, fromfile=..., tofile=...)) for two
\* texts whose equal lines stand at equal places; the lines of a group are cut down
\* to one removed and one added line
unified_diff(a, b) ==
    IF Changed(a, b) = {} THEN <<>>
    ELSE <<"--- Original", "+++ Modified">> \o Groups(GroupStarts(a, b))

\* lines 19-28: a new hunk starts at every line that starts with '@@'
RECURSIVE SplitHunks(_, _, _)
SplitHunks(diff, hunks, current_hunk) ==
    IF diff = <<>>
    THEN IF current_hunk /= <<>> THEN Append(hunks, current_hunk) ELSE hunks
    ELSE IF Head(diff) = "@@" /\ current_hunk /= <<>>
         THEN SplitHunks(Tail(diff), Append(hunks, current_hunk), <<Head(diff)>>)
         ELSE SplitHunks(Tail(diff), hunks, Append(current_hunk, Head(diff)))

\* lines 30-38: every hunk is printed and asked about; the answer is only echoed
RECURSIVE AskHunks(_, _)
AskHunks(hunks, choices) ==
    IF hunks = <<>> THEN <<>>
    ELSE <<"Hunk:">> \o Head(hunks)
         \o <<IF lower(Head(choices)) = "y" THEN "Hunk approved." ELSE "Hunk skipped.">>
         \o AskHunks(Tail(hunks), Tail(choices))

HunksOf(d) ==
    SplitHunks(unified_diff(ReadText(d.original), ReadText(d.modified)), <<>>, <<>>)

\* a selective_apply that writes only when a hunk was approved
selective_applyApproved(d, choices, final_choice) ==
    LET original == ReadText(d.original)
        modified == ReadText(d.modified)
        diff == unified_diff(original, modified)
        hunks == SplitHunks(diff, <<>>, <<>>)
        approved == \E k \in 1..Len(choices) : lower(choices[k]) = "y"
    IN IF diff = <<>>
       THEN [disk |-> d, printed |-> <<"No differences found.">>, wrote |-> FALSE]
       ELSE IF lower(final_choice) = "y" /\ approved
       THEN [disk |-> [d EXCEPT !.original = WriteText(ReadText(d.modified), d.linesep)],
             printed |-> AskHunks(hunks, choices) \o <<"Selected changes applied.">>,
             wrote |-> TRUE]
       ELSE [disk |-> d,
             printed |-> AskHunks(hunks, choices) \o <<"No changes applied.">>,
             wrote |-> FALSE]

\* selective_apply (lines 8-48) on the files of d; choices: the answers to the hunks,
\* final_choice: the answer to the last question. wrote: lines 44-45 were run.
selective_apply(d, choices, final_choice) ==
    LET original == ReadText(d.original)
        modified == ReadText(d.modified)
        diff == unified_diff(original, modified)
        hunks == SplitHunks(diff, <<>>, <<>>)
    IN IF diff = <<>>
       THEN [disk |-> d, printed |-> <<"No differences found.">>, wrote |-> FALSE]
       ELSE IF lower(final_choice) = "y"
       THEN [disk |-> [d EXCEPT !.original = WriteText(ReadText(d.modified), d.linesep)],
             printed |-> AskHunks(hunks, choices) \o <<"Selected changes applied.">>,
             wrote |-> TRUE]
       ELSE [disk |-> d,
             printed |-> AskHunks(hunks, choices) \o <<"No changes applied.">>,
             wrote |-> FALSE]

\* what a user types at a prompt
HunkAnswers == {"y", "n"}
FinalAnswers == {"y", "Y", "n", "yes"}

\* the answers to the hunks of d, one per hunk
ChoicesFor(d) == [1..Len(HunksOf(d)) -> HunkAnswers]

\* selective_apply(original_file, modified_file) with a user at the prompts
SelectiveApply ==
    /\ \E choices \in ChoicesFor(disk), final_choice \in FinalAnswers :
         LET r == selective_apply(disk, choices, final_choice)
         IN /\ disk' = r.disk
            /\ selection' = [op |-> "selective_apply", before |-> disk.original,
                             choices |-> choices, final_choice |-> final_choice,
                             printed |-> r.printed, wrote |-> r.wrote]
    /\ UNCHANGED <<files, chunker, command, retrievalVars, indicatorVars>>

InitSelector ==
    /\ files = <<>>
    /\ chunker = NoCall
    /\ command = NoCall
    /\ InitRetrievalIdle
    /\ InitIndicatorIdle
    /\ disk \in Disks
    /\ selection = [op |-> "none"]

NextSelector == SelectiveApply

SpecSelector == InitSelector /\ [][NextSelector]_vars

----------------------------------------------------------------------------
(* Properties of selective_apply *)

Applied == selection.op = "selective_apply"

\* the files as they were when the last call began
DiskBefore == [disk EXCEPT !.original = selection.before]

\* the hunk answers do not matter: the call ends the same with any others
HunkAnswersIgnored ==
    \A other \in ChoicesFor(DiskBefore) :
        /\ selective_apply(DiskBefore, other, selection.final_choice).disk = disk
        /\ selective_apply(DiskBefore, other, selection.final_choice).wrote = selection.wrote

====
